---------------------------- MODULE Spec2Model ----------------------------
(***************************************************************************)
(* Model of clipsai.resize: Resizer (resizer.py) and Segment (segment.py). *)
(*                                                                         *)
(* Times are integers counted in ticks of 1/8 second, so the default       *)
(* scene_merge_threshold of 0.25 s is 2 ticks (the face scanner, which     *)
(* divides a segment by 8, counts in ticks of 1/64 second).  Pixel         *)
(* coordinates are                                                         *)
(* integers as in the source.  Python lists are sequences; the 0-based     *)
(* indices of the source keep their 0-based values and are shifted by one  *)
(* where a sequence is indexed.                                            *)
(***************************************************************************)
EXTENDS Integers, Sequences, FiniteSets, TLC

VARIABLES
    \* ---- _merge_scene_change_and_speaker_segments (resizer.py 259-333)
    speaker_segments,       \* the list being merged (records mutated in place)
    scene_changes,          \* the scene change times, in seconds (ticks)
    scene_merge_threshold,  \* the merge threshold (ticks)
    scene_i,                \* number of scene changes the for loop has consumed
    segments_idx,           \* the cursor into speaker_segments (0-based)
    merger_pc,              \* "idle" | "loop" | "returned" | "IndexError"
    input_segments,         \* history: the list as it was passed in
    decisions,              \* history: the decision taken for each scene change
    \* ---- merge_rois (resizer.py 809-820)
    rois,                   \* the list of ROIs passed to merge_rois
    overlap_threshold,      \* the IoU threshold, a fraction <<num, den>>
    merged,                 \* merge_rois(rois, overlap_threshold)
    remerged,               \* merge_rois(merged, overlap_threshold)
    rois_pc,                \* "idle" | "input" | "merged" | "remerged"
    \* ---- _calc_split_screen_crops (resizer.py 842-879)
    layout_rois,            \* the ROIs to lay out
    resize_width,           \* width of the output canvas, pixels
    resize_height,          \* height of the output canvas, pixels
    crops,                  \* the list of sub-crop dicts returned
    layout_pc,              \* "idle" | "input" | "returned"
    \* ---- resize and _merge_identical_segments (resizer.py 79-211, 1088-1150)
    video_width,            \* video_file.get_width_pixels()
    video_height,           \* video_file.get_height_pixels()
    segments,               \* the segment dicts handed from stage to stage
    idx,                    \* the cursor of _merge_identical_segments (0-based)
    coalesce_pc,            \* "idle" | "loop" | "returned"
    crop_segments,          \* the Segment objects of the returned Crops
    scanned_found_face,     \* history: found_face of each segment after the scan
    roi_face_detections,    \* history: the boxes detected in the frames the ROI
                            \* stage sampled from each segment
    resize_pc,              \* "idle" | "merge" | "roi" | "coalesce" | "returned"
                            \* | "IndexError" | "KeyError"
    \* ---- _find_first_sec_with_face_for_each_segment (resizer.py 335-452)
    scan_segments,          \* the segment dicts the scanner annotates
    face_shown,             \* the video: the time intervals that show a face
    batch_period,           \* interval sampled per segment and round (ticks)
    analyzed_segments,      \* number of segments with is_analyzed set
    scan_pc,                \* "idle" | "call" | "loop" | "returned"
    \* ---- _calc_resize_width_and_height_pixels (resizer.py 216-257)
    original_size,          \* <<original_width_pixels, original_height_pixels>>
    aspect_ratio,           \* the aspect ratio to resize to, <<width, height>>
    resize_size,            \* the <<width, height>> returned
    dims_pc,                \* "idle" | "call" | "returned"
    \* ---- _calc_n_batches and its two callers (resizer.py 454-534, 400-418,
    \*      643-667)
    batch_args,             \* the arguments and the memory the machine reports
    batch_n,                \* n_batches, the batch count returned
    frames_per_batch,       \* the frames the caller puts into one batch
    batch_pc,               \* "idle" | "call" | "returned" | "batched"
                            \* | "ZeroDivisionError"
    \* ---- Segment (segment.py)
    obj_heap,               \* the list objects: address -> list of speakers
    obj_self,               \* a Segment
    obj_value,              \* the value it is compared with
    obj_copy,               \* obj_self.copy(), once made
    obj_result,             \* what __eq__ and __ne__, or __bool__, returned
    obj_pc                  \* "idle" | "made" | "compared" | "copied" | "mutated"
                            \* | "truth"

mergerVars == <<speaker_segments, scene_changes, scene_merge_threshold, scene_i,
                segments_idx, merger_pc, input_segments, decisions>>

roisVars == <<rois, overlap_threshold, merged, remerged, rois_pc>>

layoutVars == <<layout_rois, resize_width, resize_height, crops, layout_pc>>

coalesceVars == <<segments, idx, coalesce_pc>>

resizeVars == <<video_width, video_height, crop_segments, scanned_found_face,
                roi_face_detections, resize_pc>>

scanVars == <<scan_segments, face_shown, batch_period, analyzed_segments, scan_pc>>

dimsVars == <<original_size, aspect_ratio, resize_size, dims_pc>>

batchVars == <<batch_args, batch_n, frames_per_batch, batch_pc>>

objVars == <<obj_heap, obj_self, obj_value, obj_copy, obj_result, obj_pc>>

\* the components that resize() is not composed of in this model
unitVars == <<scanVars, dimsVars, batchVars, objVars>>

pipelineVars == <<mergerVars, roisVars, layoutVars, coalesceVars, resizeVars>>

vars == <<mergerVars, roisVars, layoutVars, coalesceVars, resizeVars, unitVars>>

\* what each component leaves alone
notMerger == <<roisVars, layoutVars, coalesceVars, resizeVars, unitVars>>
notRois == <<mergerVars, layoutVars, coalesceVars, resizeVars, unitVars>>
notLayout == <<mergerVars, roisVars, coalesceVars, resizeVars, unitVars>>
notCoalesce == <<mergerVars, roisVars, layoutVars, resizeVars, unitVars>>
notScan == <<pipelineVars, dimsVars, batchVars, objVars>>
notDims == <<pipelineVars, scanVars, batchVars, objVars>>
notBatch == <<pipelineVars, scanVars, dimsVars, objVars>>
notObj == <<pipelineVars, scanVars, dimsVars, batchVars>>

-----------------------------------------------------------------------------
(* Bounds of the model *)

MaxT == 5
MaxSegs == 2
MaxScenes == 3
MaxRois == 3
MaxLayoutRois == 5
MaxResizeSide == 4
MaxCoalesce == 3
MaxCropCoord == 2
MaxScanSecs == 10
MaxScanSegs == 2
MaxVideoSide == 6
MaxBatchItems == 3
MaxFreeMemory == 4
MaxScanBatches == 3
MaxLooseSecs == 4
MaxLooseSegs == 2
MaxBatchPeriod == 50
MaxAnyT == 3
MaxAnySegs == 2
MaxAnyScenes == 2
MaxChangedFields == 2

-----------------------------------------------------------------------------
(* Generic helpers *)

Min(a, b) == IF a <= b THEN a ELSE b
Max(a, b) == IF a >= b THEN a ELSE b
Abs(a) == IF a >= 0 THEN a ELSE -a

SetMin(S) == CHOOSE x \in S : \A y \in S : x <= y

RECURSIVE SortedSeq(_)
\* the elements of a finite set of integers as a strictly increasing sequence
SortedSeq(S) ==
    IF S = {} THEN <<>> ELSE <<SetMin(S)>> \o SortedSeq(S \ {SetMin(S)})

Last(s) == s[Len(s)]

\* segment.py lines 26-29: None, the default of width, height, target_x and
\* target_y; no coordinate or size of the model is negative
None == -1

SeqsUpTo(S, n) == UNION { [1..k -> S] : k \in 0..n }

\* a dict without the keys K (del d[k] for each k of K)
DelKeys(d, K) == [k \in DOMAIN d \ K |-> d[k]]

-----------------------------------------------------------------------------
(* TimelineMerger: Resizer._merge_scene_change_and_speaker_segments *)

\* speaker lists a diarized segment may carry
SpeakerLists == {<<0>>, <<1>>}

\* merge thresholds in ticks: 0.25 s (the default of resize) and 0.375 s
Thresholds == {2, 3}

\* contiguous speaker segments over the boundaries b[1] < b[2] < ... < b[n+1]
SegmentsOver(b, sp) ==
    [i \in 1..(Len(b) - 1) |->
        [start_time |-> b[i], end_time |-> b[i + 1], speakers |-> sp[i]]]

\* the ordered, contiguous speaker segment lists the diarizer can hand over
SpeakerSegmentInputs ==
    {<<>>} \cup
    UNION { { SegmentsOver(SortedSeq(B), sp) :
                sp \in [1..(Cardinality(B) - 1) -> SpeakerLists] } :
            B \in { X \in SUBSET (0..MaxT) :
                      Cardinality(X) >= 2 /\ Cardinality(X) <= MaxSegs + 1 } }

\* strictly increasing scene change lists; MaxT + 1 lies past every segment
SceneChangeInputs ==
    { SortedSeq(X) : X \in { Y \in SUBSET (0..(MaxT + 1)) :
                               Cardinality(Y) <= MaxScenes } }

RECURSIVE Locate(_, _, _)
\* lines 297-300: advance the cursor while the scene change lies past the
\* segment's end; the result Len(segs) means the subscript ran off the list
Locate(segs, si, t) ==
    IF si >= Len(segs) THEN Len(segs)
    ELSE IF t > segs[si + 1].end_time THEN Locate(segs, si + 1, t)
    ELSE si

\* line 302
CloseToEnd(seg, t, thr) ==
    0 < seg.end_time - t /\ seg.end_time - t < thr

\* line 310
CloseToStart(seg, t, thr) ==
    0 < t - seg.start_time /\ t - seg.start_time < thr

\* lines 303-308: snap the segment's end, and the next segment's start
SnapEndNoNext(segs, si, t) ==
    [segs EXCEPT ![si + 1].end_time = t]

SnapEnd(segs, si, t) ==
    IF si = Len(segs) - 1
    THEN [segs EXCEPT ![si + 1].end_time = t]
    ELSE [segs EXCEPT ![si + 1].end_time = t, ![si + 2].start_time = t]

\* lines 311-316: snap the segment's start, and the previous segment's end
SnapStart(segs, si, t) ==
    IF si = 0
    THEN [segs EXCEPT ![si + 1].start_time = t]
    ELSE [segs EXCEPT ![si + 1].start_time = t, ![si].end_time = t]

\* lines 321-331: split the segment at the scene change
SplitAppends(segs, si, t) ==
    [segs EXCEPT ![si + 1].end_time = t]
        \o << [start_time |-> t,
               end_time   |-> segs[si + 1].end_time,
               speakers   |-> segs[si + 1].speakers] >>

Split(segs, si, t) ==
    SubSeq([segs EXCEPT ![si + 1].end_time = t], 1, si + 1)
        \o << [start_time |-> t,
               end_time   |-> segs[si + 1].end_time,
               speakers   |-> segs[si + 1].speakers] >>
        \o SubSeq(segs, si + 2, Len(segs))

MergerStart ==
    /\ speaker_segments \in SpeakerSegmentInputs
    /\ scene_changes \in SceneChangeInputs
    /\ scene_merge_threshold \in Thresholds
    /\ scene_i = 0
    /\ segments_idx = 0
    /\ merger_pc = "loop"
    /\ input_segments = speaker_segments
    /\ decisions = <<>>

\* any list of segments, ordered or not, of positive, zero or negative
\* duration, and any list of scene changes: what a caller may pass
AnySegmentInputs ==
    SeqsUpTo({ [start_time |-> a, end_time |-> b, speakers |-> <<0>>] :
                 a \in 0..MaxAnyT, b \in 0..MaxAnyT }, MaxAnySegs)

AnySceneChangeInputs == SeqsUpTo(0..(MaxAnyT + 1), MaxAnyScenes)

MergerAnyStart ==
    /\ speaker_segments \in AnySegmentInputs
    /\ scene_changes \in AnySceneChangeInputs
    /\ scene_merge_threshold \in Thresholds
    /\ scene_i = 0
    /\ segments_idx = 0
    /\ merger_pc = "loop"
    /\ input_segments = speaker_segments
    /\ decisions = <<>>

\* the scene change the for loop takes next (line 296)
scene_change_sec == scene_changes[scene_i + 1]

\* the cursor after the while loop of lines 298-300
located == Locate(speaker_segments, segments_idx, scene_change_sec)

InLoop == merger_pc = "loop" /\ scene_i < Len(scene_changes)

Found == InLoop /\ located < Len(speaker_segments)

segment == speaker_segments[located + 1]

Decide(d, segs) ==
    /\ speaker_segments' = segs
    /\ segments_idx' = located
    /\ scene_i' = scene_i + 1
    /\ decisions' = Append(decisions, d)
    /\ UNCHANGED <<scene_changes, scene_merge_threshold, merger_pc, input_segments>>
    /\ UNCHANGED notMerger

\* lines 297/300: speaker_segments[segments_idx] raises IndexError
MergeIndexError ==
    /\ InLoop
    /\ located >= Len(speaker_segments)
    /\ merger_pc' = "IndexError"
    /\ segments_idx' = located
    /\ UNCHANGED <<speaker_segments, scene_changes, scene_merge_threshold,
                   scene_i, input_segments, decisions>>
    /\ UNCHANGED notMerger

\* lines 302-308
MergeSnapEnd ==
    /\ Found
    /\ CloseToEnd(segment, scene_change_sec, scene_merge_threshold)
    /\ Decide("snap_end", SnapEnd(speaker_segments, located, scene_change_sec))

\* lines 310-316
MergeSnapStart ==
    /\ Found
    /\ ~CloseToEnd(segment, scene_change_sec, scene_merge_threshold)
    /\ CloseToStart(segment, scene_change_sec, scene_merge_threshold)
    /\ Decide("snap_start", SnapStart(speaker_segments, located, scene_change_sec))

\* lines 318-319
MergeNoOp ==
    /\ Found
    /\ ~CloseToEnd(segment, scene_change_sec, scene_merge_threshold)
    /\ ~CloseToStart(segment, scene_change_sec, scene_merge_threshold)
    /\ scene_change_sec = segment.end_time
    /\ Decide("no_op", speaker_segments)

\* lines 321-331
MergeSplit ==
    /\ Found
    /\ ~CloseToEnd(segment, scene_change_sec, scene_merge_threshold)
    /\ ~CloseToStart(segment, scene_change_sec, scene_merge_threshold)
    /\ scene_change_sec # segment.end_time
    /\ Decide("split", Split(speaker_segments, located, scene_change_sec))

\* line 333
MergeReturn ==
    /\ merger_pc = "loop"
    /\ scene_i = Len(scene_changes)
    /\ merger_pc' = "returned"
    /\ UNCHANGED <<speaker_segments, scene_changes, scene_merge_threshold,
                   scene_i, segments_idx, input_segments, decisions>>
    /\ UNCHANGED notMerger

MergerNext ==
    \/ MergeIndexError
    \/ MergeSnapEnd
    \/ MergeSnapStart
    \/ MergeNoOp
    \/ MergeSplit
    \/ MergeReturn

MergerIdle ==
    /\ speaker_segments = <<>>
    /\ scene_changes = <<>>
    /\ scene_merge_threshold = 0
    /\ scene_i = 0
    /\ segments_idx = 0
    /\ merger_pc = "idle"
    /\ input_segments = <<>>
    /\ decisions = <<>>

-----------------------------------------------------------------------------
(* Rect and the ROIMerger: Resizer.iou, Resizer.union_rois, Resizer.merge_rois *)

Rect(x, y, width, height) == [x |-> x, y |-> y, width |-> width, height |-> height]

\* lines 824-829: the area of the intersection of two rectangles
Intersection(rect1, rect2) ==
    LET x1 == Max(rect1.x, rect2.x)
        y1 == Max(rect1.y, rect2.y)
        x2 == Min(rect1.x + rect1.width, rect2.x + rect2.width)
        y2 == Min(rect1.y + rect1.height, rect2.y + rect2.height)
    IN  Max(0, x2 - x1) * Max(0, y2 - y1)

\* line 830: the area of the union of two rectangles
UnionArea(rect1, rect2) ==
    rect1.width * rect1.height + rect2.width * rect2.height
        - Intersection(rect1, rect2)

\* lines 815 and 832: iou(rect1, rect2) > thr for the fraction thr = num/den;
\* iou is intersection / union when union > 0 and otherwise 0
IouExceeds(rect1, rect2, thr) ==
    IF UnionArea(rect1, rect2) > 0
    THEN Intersection(rect1, rect2) * thr[2] > thr[1] * UnionArea(rect1, rect2)
    ELSE 0 > thr[1]

\* lines 835-840
union_rois(rect1, rect2) ==
    LET x == Min(rect1.x, rect2.x)
        y == Min(rect1.y, rect2.y)
    IN  Rect(x, y,
             Max(rect1.x + rect1.width, rect2.x + rect2.width) - x,
             Max(rect1.y + rect1.height, rect2.y + rect2.height) - y)

\* s without its element at the 0-based index i (list.pop(i))
Pop(s, i) == SubSeq(s, 1, i) \o SubSeq(s, i + 2, Len(s))

RECURSIVE Absorb(_, _, _, _)
\* lines 813-818: one forward pass over the remaining ROIs, from index i on;
\* the result is <<the accumulated roi, the ROIs left in the list>>
Absorb(roi, rest, i, thr) ==
    IF i >= Len(rest) THEN <<roi, rest>>
    ELSE IF IouExceeds(roi, rest[i + 1], thr)
         THEN Absorb(union_rois(roi, rest[i + 1]), Pop(rest, i), i, thr)
         ELSE Absorb(roi, rest, i + 1, thr)

RECURSIVE merge_rois(_, _)
\* lines 810-820
merge_rois(rs, thr) ==
    IF rs = <<>> THEN <<>>
    ELSE LET r == Absorb(Head(rs), Tail(rs), 0, thr)
         IN  <<r[1]>> \o merge_rois(r[2], thr)

\* the rectangles the ROIMerger is exercised with
RoiBoxes ==
    { Rect(x, 0, w, h) : x \in 0..1, w \in 0..3, h \in 1..2 }

\* IoU thresholds: 1/2 (the default of merge_rois) and 1/4
OverlapThresholds == {<<1, 2>>, <<1, 4>>}


RoisStart ==
    /\ rois \in SeqsUpTo(RoiBoxes, MaxRois)
    /\ overlap_threshold \in OverlapThresholds
    /\ merged = <<>>
    /\ remerged = <<>>
    /\ rois_pc = "input"

RoisIdle ==
    /\ rois = <<>>
    /\ overlap_threshold = <<1, 2>>
    /\ merged = <<>>
    /\ remerged = <<>>
    /\ rois_pc = "idle"

\* merge_rois applied to the input list
MergeRois ==
    /\ rois_pc = "input"
    /\ merged' = merge_rois(rois, overlap_threshold)
    /\ rois_pc' = "merged"
    /\ UNCHANGED <<rois, overlap_threshold, remerged>>
    /\ UNCHANGED notRois

\* merge_rois applied to its own result
MergeRoisAgain ==
    /\ rois_pc = "merged"
    /\ remerged' = merge_rois(merged, overlap_threshold)
    /\ rois_pc' = "remerged"
    /\ UNCHANGED <<rois, overlap_threshold, merged>>
    /\ UNCHANGED notRois

RoisNext == MergeRois \/ MergeRoisAgain

-----------------------------------------------------------------------------
(* LayoutCalculator: Resizer._calc_crop, Resizer._calc_split_screen_crops *)

\* lines 1078-1086 without the max(., 0) of lines 1081-1082
calc_crop_unclamped(roi, width, height) ==
    Rect(roi.x + roi.width \div 2 - width \div 2,
         roi.y + roi.height \div 2 - height \div 2,
         width, height)

\* lines 1078-1086
calc_crop(roi, width, height) ==
    Rect(Max(roi.x + roi.width \div 2 - width \div 2, 0),
         Max(roi.y + roi.height \div 2 - height \div 2, 0),
         width, height)

\* line 864: math.ceil(math.sqrt(n))
CeilSqrt(n) == CHOOSE g \in 0..n : g * g >= n /\ \A k \in 0..(g - 1) : k * k < n

\* lines 851-861: two ROIs; the dict has no "target_x" key
TwoRoiCropsFullHeight(rs, width, height) ==
    [k \in 1..2 |->
        LET crop == calc_crop(rs[k], width, height \div 2)
        IN  [x |-> crop.x, y |-> crop.y, width |-> width,
             height |-> height \div 2, target_y |-> (k - 1) * height]]

TwoRoiCrops(rs, width, height) ==
    [k \in 1..2 |->
        LET crop == calc_crop(rs[k], width, height \div 2)
        IN  [x |-> crop.x, y |-> crop.y, width |-> width,
             height |-> height \div 2, target_y |-> (k - 1) * (height \div 2)]]

\* lines 862-877: three or more ROIs on a square grid
GridCropsByColumn(rs, width, height) ==
    LET grid_size == CeilSqrt(Len(rs))
        cell_width == width \div grid_size
        cell_height == height \div grid_size
    IN  [k \in 1..Len(rs) |->
            LET crop == calc_crop(rs[k], cell_width, cell_height)
            IN  [x |-> crop.x, y |-> crop.y,
                 width |-> cell_width, height |-> cell_height,
                 target_x |-> ((k - 1) % grid_size) * cell_width,
                 target_y |-> ((k - 1) % grid_size) * cell_height]]

GridCrops(rs, width, height) ==
    LET grid_size == CeilSqrt(Len(rs))
        cell_width == width \div grid_size
        cell_height == height \div grid_size
    IN  [k \in 1..Len(rs) |->
            LET crop == calc_crop(rs[k], cell_width, cell_height)
            IN  [x |-> crop.x, y |-> crop.y,
                 width |-> cell_width, height |-> cell_height,
                 target_x |-> ((k - 1) % grid_size) * cell_width,
                 target_y |-> ((k - 1) \div grid_size) * cell_height]]

\* lines 848-879
calc_split_screen_crops(rs, width, height) ==
    IF Len(rs) = 2 THEN TwoRoiCrops(rs, width, height)
    ELSE IF Len(rs) > 2 THEN GridCrops(rs, width, height)
    ELSE <<>>

\* the ROIs the layout is exercised with: one at the origin, one off-centre
LayoutBoxes == { Rect(0, 0, 2, 2), Rect(7, 5, 4, 2) }

\* canvas sizes: the small ones and 607 x 1080, the 9:16 canvas of a 1920 x 1080 video
ResizeWidths == 0..MaxResizeSide \cup {607}
ResizeHeights == 0..MaxResizeSide \cup {1080}

LayoutStart ==
    /\ layout_rois \in SeqsUpTo(LayoutBoxes, MaxLayoutRois)
    /\ resize_width \in ResizeWidths
    /\ resize_height \in ResizeHeights
    /\ crops = <<>>
    /\ layout_pc = "input"

LayoutIdle ==
    /\ layout_rois = <<>>
    /\ resize_width = 0
    /\ resize_height = 0
    /\ crops = <<>>
    /\ layout_pc = "idle"

CalcSplitScreenCrops ==
    /\ layout_pc = "input"
    /\ crops' = calc_split_screen_crops(layout_rois, resize_width, resize_height)
    /\ layout_pc' = "returned"
    /\ UNCHANGED <<layout_rois, resize_width, resize_height>>
    /\ UNCHANGED notLayout

LayoutNext == CalcSplitScreenCrops

-----------------------------------------------------------------------------
(* SegmentCoalescer: Resizer._merge_identical_segments and its helpers *)

\* line 1122: max_position_difference_ratio = 0.04, as the fraction 4/100
max_position_difference_ratio == <<4, 100>>

BelowRatioInclusive(diff, size, max_diff_ratio) ==
    diff * max_diff_ratio[2] <= max_diff_ratio[1] * size

\* diff / size < max_diff_ratio (lines 1153-1155, 1161-1163), in exact
\* arithmetic: diff and size are pixel counts, for which the float quotient
\* compares with the float 0.04 as the fraction compares with 4/100
BelowRatio(diff, size, max_diff_ratio) ==
    diff * max_diff_ratio[2] < max_diff_ratio[1] * size

\* lines 1152-1155
are_single_crops_similar(segment1, segment2, width, height, max_diff_ratio) ==
    /\ BelowRatio(Abs(segment1.x - segment2.x), width, max_diff_ratio)
    /\ BelowRatio(Abs(segment1.y - segment2.y), height, max_diff_ratio)

\* lines 1157-1165
are_split_crops_similar(crops1, crops2, width, height, max_diff_ratio) ==
    /\ Len(crops1) = Len(crops2)
    /\ \A k \in 1..Len(crops1) :
        /\ BelowRatio(Abs(crops1[k].x - crops2[k].x), width, max_diff_ratio)
        /\ BelowRatio(Abs(crops1[k].y - crops2[k].y), height, max_diff_ratio)

\* lines 1167-1170
merge_single_crop_segments_keeps_end(segment1, segment2) ==
    [segment1 EXCEPT !.x = (segment1.x + segment2.x) \div 2,
                     !.y = (segment1.y + segment2.y) \div 2]

merge_single_crop_segments(segment1, segment2) ==
    [segment1 EXCEPT !.x = (segment1.x + segment2.x) \div 2,
                     !.y = (segment1.y + segment2.y) \div 2,
                     !.end_time = segment2.end_time]

\* line 1176 alone: the crops of segment1 are left as they are
merge_split_crop_segments_keeps_crops(segment1, segment2) ==
    [segment1 EXCEPT !.end_time = segment2.end_time]

\* lines 1172-1176; zip stops at the shorter list
merge_split_crop_segments(segment1, segment2) ==
    [segment1 EXCEPT
        !.crops = [k \in 1..Len(segment1.crops) |->
                     IF k <= Len(segment2.crops)
                     THEN [segment1.crops[k] EXCEPT
                             !.x = (segment1.crops[k].x + segment2.crops[k].x) \div 2,
                             !.y = (segment1.crops[k].y + segment2.crops[k].y) \div 2]
                     ELSE segment1.crops[k]],
        !.end_time = segment2.end_time]

\* lines 1127-1128
current_segment == segments[idx + 1]
next_segment == segments[idx + 2]

CoalesceLoop == coalesce_pc = "loop" /\ idx < Len(segments) - 1

SimilarSingle ==
    are_single_crops_similar(current_segment, next_segment, video_width,
                             video_height, max_position_difference_ratio)

SimilarSplit ==
    are_split_crops_similar(current_segment.crops, next_segment.crops, video_width,
                            video_height, max_position_difference_ratio)

\* lines 1130-1132: different crop types, move on
CoalesceTypeDiffers ==
    /\ CoalesceLoop
    /\ current_segment.crop_type # next_segment.crop_type
    /\ idx' = idx + 1
    /\ UNCHANGED <<segments, coalesce_pc>>
    /\ UNCHANGED notCoalesce

\* lines 1134-1137: merge two single crops; the cursor stays
CoalesceMergeSingle ==
    /\ CoalesceLoop
    /\ current_segment.crop_type = next_segment.crop_type
    /\ current_segment.crop_type = "single"
    /\ SimilarSingle
    /\ segments' = Pop([segments EXCEPT
                          ![idx + 1] = merge_single_crop_segments(current_segment,
                                                                  next_segment)],
                       idx + 1)
    /\ UNCHANGED <<idx, coalesce_pc>>
    /\ UNCHANGED notCoalesce

\* lines 1138-1139
CoalesceKeepSingle ==
    /\ CoalesceLoop
    /\ current_segment.crop_type = next_segment.crop_type
    /\ current_segment.crop_type = "single"
    /\ ~SimilarSingle
    /\ idx' = idx + 1
    /\ UNCHANGED <<segments, coalesce_pc>>
    /\ UNCHANGED notCoalesce

\* lines 1140-1143: merge two split crops; the cursor stays
CoalesceMergeSplit ==
    /\ CoalesceLoop
    /\ current_segment.crop_type = next_segment.crop_type
    /\ current_segment.crop_type = "split"
    /\ SimilarSplit
    /\ segments' = Pop([segments EXCEPT
                          ![idx + 1] = merge_split_crop_segments(current_segment,
                                                                 next_segment)],
                       idx + 1)
    /\ UNCHANGED <<idx, coalesce_pc>>
    /\ UNCHANGED notCoalesce

\* lines 1144-1145
CoalesceKeepSplit ==
    /\ CoalesceLoop
    /\ current_segment.crop_type = next_segment.crop_type
    /\ current_segment.crop_type = "split"
    /\ ~SimilarSplit
    /\ idx' = idx + 1
    /\ UNCHANGED <<segments, coalesce_pc>>
    /\ UNCHANGED notCoalesce

\* lines 1126 and 1150: the loop ends and the list is returned.  (The branch of
\* lines 1146-1148 needs a crop_type other than 'single' and 'split', which
\* _add_x_y_coords_to_each_segment_batch never assigns.)
CoalesceReturn ==
    /\ coalesce_pc = "loop"
    /\ idx >= Len(segments) - 1
    /\ coalesce_pc' = "returned"
    /\ UNCHANGED <<segments, idx>>
    /\ UNCHANGED notCoalesce

CoalesceNext ==
    \/ CoalesceTypeDiffers
    \/ CoalesceMergeSingle
    \/ CoalesceKeepSingle
    \/ CoalesceMergeSplit
    \/ CoalesceKeepSplit
    \/ CoalesceReturn

CoalesceIdle ==
    /\ segments = <<>>
    /\ idx = 0
    /\ coalesce_pc = "idle"

\* width and height of the source videos the coalescer is run on (lines
\* 1123-1124)
CoalesceVideos == {<<50, 50>>, <<100, 50>>, <<1000, 1000>>}

\* canvas and ROIs the coalescer's split-screen inputs are laid out with
CoalesceCanvas == <<20, 36>>
CoalesceRoi(d) == Rect(6 + d, 9, 8, 8)

\* the crop geometries of the segments handed to the coalescer
CropGeometries ==
    { [crop_type |-> "single", x |-> x, y |-> y] :
        x \in 0..MaxCropCoord, y \in {0, 2} }
    \cup
    { [crop_type |-> "single", x |-> x, y |-> 0] : x \in {30, 40, 50} }
    \cup
    { [crop_type |-> "split",
       crops |-> calc_split_screen_crops(<<CoalesceRoi(0), CoalesceRoi(d)>>,
                                         CoalesceCanvas[1], CoalesceCanvas[2])] :
        d \in 0..MaxCropCoord }
    \cup
    { [crop_type |-> "split",
       crops |-> calc_split_screen_crops(
                    <<CoalesceRoi(d), CoalesceRoi(0), CoalesceRoi(0)>>,
                    CoalesceCanvas[1], CoalesceCanvas[2])] :
        d \in 0..MaxCropCoord }

\* segment i of a contiguous list, with the crop geometry g
CroppedSegment(i, g) ==
    IF g.crop_type = "single"
    THEN [speakers |-> <<i % 2>>, start_time |-> i - 1, end_time |-> i,
          x |-> g.x, y |-> g.y, crop_type |-> "single"]
    ELSE [speakers |-> <<i % 2>>, start_time |-> i - 1, end_time |-> i,
          crops |-> g.crops, crop_type |-> "split"]

CoalesceStart ==
    /\ \E gs \in SeqsUpTo(CropGeometries, MaxCoalesce) :
         segments = [i \in 1..Len(gs) |-> CroppedSegment(i, gs[i])]
    /\ idx = 0
    /\ coalesce_pc = "loop"

-----------------------------------------------------------------------------
(* FacePresenceScanner: Resizer._find_first_sec_with_face_for_each_segment *)

\* In this component times are counted in ticks of 1/64 second, so that
\* start_time + (end_time - start_time) / 8 is an integer for segment
\* boundaries on the 1/8 s grid; every value is a dyadic fraction of a second,
\* on which the float arithmetic of the source is exact.

\* line 384: sample_period = 1 second
sample_period == 64

\* line 434: 0.25 seconds
QuarterSec == sample_period \div 4

\* the face detector returns a detection (line 427: faces is not None) for
\* the frame at second t
FaceAt(t) == \E iv \in face_shown : iv[1] <= t /\ t <= iv[2]

\* lines 393-394 without the max(1, .) of line 395
NumSamplesMayBeZero(seg, period) ==
    Min(period, seg.end_time - seg.first_face_sec) \div sample_period

\* lines 393-396; // floors and int() keeps the floor
NumSamples(seg, period) ==
    Max(1, Min(period, seg.end_time - seg.first_face_sec) \div sample_period)

RECURSIVE DetectSecs(_, _)
\* lines 389-398: the times to detect faces at, segment after segment
DetectSecs(segs, period) ==
    IF segs = <<>> THEN <<>>
    ELSE (IF Head(segs).is_analyzed THEN <<>>
          ELSE [i \in 1..NumSamples(Head(segs), period) |->
                  Head(segs).first_face_sec + (i - 1) * sample_period])
         \o DetectSecs(Tail(segs), period)

\* lines 409-418: extract_frames and _detect_faces give one detection per
\* time they are handed, in order
FaceDetectionsAt(detect_secs) ==
    [k \in 1..Len(detect_secs) |-> FaceAt(detect_secs[k])]

RECURSIVE DetectInBatches(_, _, _, _)
\* lines 406-418: batch i detects the faces of detect_secs[i * per_batch :
\* min((i + 1) * per_batch, len(detect_secs))] and the results are
\* concatenated; a slice that starts past the end is empty
DetectInBatches(detect_secs, i, n_batches, per_batch) ==
    IF i >= n_batches THEN <<>>
    ELSE FaceDetectionsAt(
             SubSeq(detect_secs, i * per_batch + 1,
                    Min((i + 1) * per_batch, Len(detect_secs))))
         \o DetectInBatches(detect_secs, i + 1, n_batches, per_batch)

\* lines 400-418, with frames_per_batch = int(len(detect_secs) // n_batches + 1)
DetectFaces(detect_secs, n_batches) ==
    DetectInBatches(detect_secs, 0, n_batches, Len(detect_secs) \div n_batches + 1)

\* lines 425-431: the samples of one segment start at face_detections[i0];
\* the cursor moves one sample_period per sample without a face
CheckSamples(seg, num_samples, face_detections, i0) ==
    LET hits == { i \in 0..(num_samples - 1) : face_detections[i0 + i + 1] }
    IN  IF hits # {}
        THEN [seg EXCEPT !.found_face = TRUE,
                         !.first_face_sec = @ + SetMin(hits) * sample_period]
        ELSE [seg EXCEPT !.first_face_sec = @ + num_samples * sample_period]

\* lines 433-439
MarkAnalyzed(seg) ==
    [seg EXCEPT !.is_analyzed =
        seg.found_face \/ seg.first_face_sec >= seg.end_time - QuarterSec]

RECURSIVE CheckFacesKeepsIdx(_, _, _, _)
\* lines 421-439 without line 440: idx stays where the for loop left it, at
\* the detection that broke the loop or past the last sample
CheckFacesKeepsIdx(segs, period, face_detections, i0) ==
    IF segs = <<>> THEN <<>>
    ELSE IF Head(segs).is_analyzed
    THEN <<Head(segs)>> \o CheckFacesKeepsIdx(Tail(segs), period, face_detections, i0)
    ELSE LET n == NumSamples(Head(segs), period)
             hits == { i \in 0..(n - 1) : face_detections[i0 + i + 1] }
         IN  <<MarkAnalyzed(CheckSamples(Head(segs), n, face_detections, i0))>>
             \o CheckFacesKeepsIdx(Tail(segs), period, face_detections,
                                   i0 + (IF hits # {} THEN SetMin(hits) ELSE n))

RECURSIVE CheckFaces(_, _, _, _)
\* lines 421-440: every segment not yet analyzed, with idx = i0 on entry
CheckFaces(segs, period, face_detections, i0) ==
    IF segs = <<>> THEN <<>>
    ELSE IF Head(segs).is_analyzed
    THEN <<Head(segs)>> \o CheckFaces(Tail(segs), period, face_detections, i0)
    ELSE LET n == NumSamples(Head(segs), period)
         IN  <<MarkAnalyzed(CheckSamples(Head(segs), n, face_detections, i0))>>
             \o CheckFaces(Tail(segs), period, face_detections, i0 + n)

NumAnalyzed(segs) == Cardinality({ i \in 1..Len(segs) : segs[i].is_analyzed })

\* lines 375-385: the cursor starts an eighth of the way through the segment
ScanBegin ==
    /\ scan_pc = "call"
    /\ scan_segments' =
         [i \in 1..Len(scan_segments) |->
            scan_segments[i] @@
            [first_face_sec |-> scan_segments[i].start_time
                 + (scan_segments[i].end_time - scan_segments[i].start_time) \div 8,
             found_face |-> FALSE,
             is_analyzed |-> FALSE]]
    /\ batch_period' = sample_period
    /\ analyzed_segments' = 0
    /\ scan_pc' = "loop"
    /\ UNCHANGED face_shown
    /\ UNCHANGED notScan

\* lines 386-443: one round of the while loop, with the batch count that
\* _calc_n_batches returns (1 or more); the round is not taken once
\* batch_period has passed MaxBatchPeriod seconds
ScanRound ==
    /\ scan_pc = "loop"
    /\ analyzed_segments < Len(scan_segments)
    /\ batch_period <= MaxBatchPeriod * sample_period
    /\ \E n_batches \in 1..MaxScanBatches :
         LET detect_secs == DetectSecs(scan_segments, batch_period)
             face_detections == DetectFaces(detect_secs, n_batches)
             checked == CheckFaces(scan_segments, batch_period, face_detections, 0)
         IN  /\ scan_segments' = checked
             /\ analyzed_segments' = analyzed_segments
                                       + (NumAnalyzed(checked) - NumAnalyzed(scan_segments))
    /\ batch_period' = (batch_period + 3 * sample_period) * 2
    /\ UNCHANGED <<face_shown, scan_pc>>
    /\ UNCHANGED notScan

\* lines 386 and 445-449: the loop ends, num_samples and is_analyzed are
\* deleted and the segments are returned
ScanReturn ==
    /\ scan_pc = "loop"
    /\ analyzed_segments >= Len(scan_segments)
    /\ scan_segments' =
         [i \in 1..Len(scan_segments) |->
            [k \in DOMAIN scan_segments[i] \ {"is_analyzed"} |-> scan_segments[i][k]]]
    /\ scan_pc' = "returned"
    /\ UNCHANGED <<face_shown, batch_period, analyzed_segments>>
    /\ UNCHANGED notScan

ScanNext ==
    \/ ScanBegin
    \/ ScanRound
    \/ ScanReturn

ScanIdle ==
    /\ scan_segments = <<>>
    /\ face_shown = {}
    /\ batch_period = 0
    /\ analyzed_segments = 0
    /\ scan_pc = "idle"

\* segment boundaries: the whole seconds and a quarter of a second
ScanBoundaries ==
    { k * sample_period : k \in 0..MaxScanSecs } \cup {QuarterSec}

\* ordered, contiguous segments of positive length
ScanSegmentInputs ==
    {<<>>} \cup
    { SegmentsOver(SortedSeq(B), [i \in 1..(Cardinality(B) - 1) |-> <<i - 1>>]) :
        B \in { X \in SUBSET ScanBoundaries :
                  Cardinality(X) >= 2 /\ Cardinality(X) <= MaxScanSegs + 1 } }

\* what the video shows: no face, or a face from a half second on, for an
\* instant, for half a second, or until the end
FaceIntervals ==
    UNION { { <<f * (sample_period \div 2), t>> :
                t \in { f * (sample_period \div 2),
                        (f + 1) * (sample_period \div 2),
                        MaxScanSecs * sample_period } } :
            f \in 0..(2 * MaxScanSecs) }

ScanStart ==
    /\ scan_segments \in ScanSegmentInputs
    /\ face_shown \in {{}} \cup { {iv} : iv \in FaceIntervals }
    /\ batch_period = 0
    /\ analyzed_segments = 0
    /\ scan_pc = "call"

\* any list of segments with start_time <= end_time, in any order, zero-length
\* ones included: of no length, of a quarter second, and longer than the
\* first batch_period
ScanLooseBoundaries ==
    {0, QuarterSec, MaxLooseSecs * sample_period}

ScanLooseInputs ==
    SeqsUpTo({ [start_time |-> ab[1], end_time |-> ab[2], speakers |-> <<0>>] :
                 ab \in { p \in ScanLooseBoundaries \X ScanLooseBoundaries :
                            p[1] <= p[2] } }, MaxLooseSegs)

\* a detector that never returns a face, one that always does, or one that
\* returns a face for the frames of a single instant, half a second past a
\* whole second
ScanLooseFaces ==
    {{}, {<<0, MaxLooseSecs * sample_period>>}}
    \cup { {<<f * sample_period + sample_period \div 2,
              f * sample_period + sample_period \div 2>>} :
             f \in 0..(MaxLooseSecs - 1) }

ScanLooseStart ==
    /\ scan_segments \in ScanLooseInputs
    /\ face_shown \in ScanLooseFaces
    /\ batch_period = 0
    /\ analyzed_segments = 0
    /\ scan_pc = "call"

-----------------------------------------------------------------------------
(* Resizer._calc_resize_width_and_height_pixels *)

calc_resize_width_and_height_pixels_rounds_up(original_width_pixels, original_height_pixels, resize_aspect_ratio) ==
    LET resize_ar_width == resize_aspect_ratio[1]
        resize_ar_height == resize_aspect_ratio[2]
    IN  IF original_width_pixels * resize_ar_height
              > resize_ar_width * original_height_pixels
        THEN <<(original_height_pixels * resize_ar_width + resize_ar_height - 1)
                  \div resize_ar_height,
               original_height_pixels>>
        ELSE <<original_width_pixels,
               (original_width_pixels * resize_ar_height + resize_ar_width - 1)
                  \div resize_ar_width>>

\* lines 240-257.  The quotients of these small integers are compared as the
\* fractions are, and int() of a non-negative quotient is the integer quotient
calc_resize_width_and_height_pixels(original_width_pixels, original_height_pixels, resize_aspect_ratio) ==
    LET resize_ar_width == resize_aspect_ratio[1]
        resize_ar_height == resize_aspect_ratio[2]
    IN  IF original_width_pixels * resize_ar_height
              > resize_ar_width * original_height_pixels
        THEN <<(original_height_pixels * resize_ar_width) \div resize_ar_height,
               original_height_pixels>>
        ELSE <<original_width_pixels,
               (original_width_pixels * resize_ar_height) \div resize_ar_width>>

\* lines 216-257
CalcResizeWidthAndHeightPixels ==
    /\ dims_pc = "call"
    /\ resize_size' = calc_resize_width_and_height_pixels(
                         original_size[1], original_size[2], aspect_ratio)
    /\ dims_pc' = "returned"
    /\ UNCHANGED <<original_size, aspect_ratio>>
    /\ UNCHANGED notDims

DimsNext == CalcResizeWidthAndHeightPixels

DimsIdle ==
    /\ original_size = <<0, 0>>
    /\ aspect_ratio = <<0, 0>>
    /\ resize_size = <<0, 0>>
    /\ dims_pc = "idle"

\* widths and heights of source videos, and target aspect ratios
VideoSides == 1..MaxVideoSide \cup {1080, 1920}
AspectRatios == {<<9, 16>>, <<16, 9>>, <<1, 1>>, <<4, 5>>}

DimsStart ==
    /\ original_size \in VideoSides \X VideoSides
    /\ aspect_ratio \in AspectRatios
    /\ resize_size = <<0, 0>>
    /\ dims_pc = "call"

-----------------------------------------------------------------------------
(* BatchSizer: Resizer._calc_n_batches and the batching of its callers *)

\* line 484: num_color_channels = 3
num_color_channels == 3

\* img_proc.calc_img_bytes: the bytes of an image of 8-bit channels
calc_img_bytes(height, width, channels) == height * width * channels

\* lines 494-495: downsample_factor = max(vid_width / face_detect_width, 1)
\* and int(vid_height // downsample_factor); face_detect_width is a power of
\* two in this model, so the float quotient is exact
face_detect_height(vid_width, vid_height, face_detect_width) ==
    IF vid_width > face_detect_width
    THEN (vid_height * face_detect_width) \div vid_width
    ELSE vid_height

\* lines 482-486: bytes needed to extract one frame
ExtractBytesPerFrame(a) ==
    calc_img_bytes(a.vid_height, a.vid_width, num_color_channels)

\* lines 494-503: bytes needed to detect the faces of one frame
DetectBytesPerFrame(a) ==
    calc_img_bytes(face_detect_height(a.vid_width, a.vid_height, a.face_detect_width),
                   a.face_detect_width, num_color_channels)

\* line 391-398 and 401 (the scanner passes len(detect_secs)); line 644 (the
\* ROI stage passes num_segments * samples_per_segment)
NumFrames(a) ==
    IF a.caller = "scanner" THEN a.num_items
    ELSE a.num_items * a.samples_per_segment

\* lines 482-520 and 534, for free_cpu_memory > 0
calc_n_batches(a) ==
    LET total_extract_bytes == NumFrames(a) * ExtractBytesPerFrame(a)
        total_face_detect_bytes == NumFrames(a) * DetectBytesPerFrame(a)
    IN  IF a.cuda
        THEN Max(total_extract_bytes \div a.free_cpu_memory + 1,
                 a.n_face_detect_batches)
        ELSE Max((total_extract_bytes + total_face_detect_bytes)
                    \div a.free_cpu_memory + 1,
                 0)

\* lines 513-517: // by a free_cpu_memory of 0
CalcNBatchesZeroDivision ==
    /\ batch_pc = "call"
    /\ batch_args.free_cpu_memory = 0
    /\ batch_pc' = "ZeroDivisionError"
    /\ UNCHANGED <<batch_args, batch_n, frames_per_batch>>
    /\ UNCHANGED notBatch

\* lines 481-534
CalcNBatches ==
    /\ batch_pc = "call"
    /\ batch_args.free_cpu_memory # 0
    /\ batch_n' = calc_n_batches(batch_args)
    /\ batch_pc' = "returned"
    /\ UNCHANGED <<batch_args, frames_per_batch>>
    /\ UNCHANGED notBatch

\* line 406: frames_per_batch = int(len(detect_secs) // n_batches + 1)
ScannerBatches ==
    /\ batch_pc = "returned"
    /\ batch_args.caller = "scanner"
    /\ frames_per_batch' = batch_args.num_items \div batch_n + 1
    /\ batch_pc' = "batched"
    /\ UNCHANGED <<batch_args, batch_n>>
    /\ UNCHANGED notBatch

\* line 648: segments_per_batch = int(num_segments // n_batches + 1), each
\* segment of a batch with up to samples_per_segment frames (line 732)
RoiBatches ==
    /\ batch_pc = "returned"
    /\ batch_args.caller = "roi"
    /\ frames_per_batch' = (batch_args.num_items \div batch_n + 1)
                             * batch_args.samples_per_segment
    /\ batch_pc' = "batched"
    /\ UNCHANGED <<batch_args, batch_n>>
    /\ UNCHANGED notBatch

BatchNext ==
    \/ CalcNBatchesZeroDivision
    \/ CalcNBatches
    \/ ScannerBatches
    \/ RoiBatches

\* the calls made by the scanner (any number of detect_secs) and by the ROI
\* stage (any number of segments), on small videos and small memories
BatchCalls ==
    { [caller |-> c, num_items |-> n, samples_per_segment |-> k,
       vid_width |-> w, vid_height |-> h, face_detect_width |-> fdw,
       n_face_detect_batches |-> nb, cuda |-> cu, free_cpu_memory |-> f] :
        c \in {"scanner", "roi"}, n \in 0..MaxBatchItems, k \in {1, 2},
        w \in {1, 2}, h \in {1, 2}, fdw \in {1, 2}, nb \in {1, 2},
        cu \in BOOLEAN, f \in {0} \cup { 6 * j : j \in 1..MaxFreeMemory } }

BatchStart ==
    /\ batch_args \in { a \in BatchCalls :
                          a.caller = "scanner" => a.samples_per_segment = 1 }
    /\ batch_n = 0
    /\ frames_per_batch = 0
    /\ batch_pc = "call"

BatchIdle ==
    /\ batch_args = <<>>
    /\ batch_n = 0
    /\ frames_per_batch = 0
    /\ batch_pc = "idle"

-----------------------------------------------------------------------------
(* Segment (segment.py) *)

\* Python lists are objects: obj_heap[a] is the list at address a, and the
\* _speakers attribute of a Segment object holds an address.

\* the attributes __init__ sets (segment.py lines 55-63)
SegmentFields ==
    {"_speakers", "_start_time", "_end_time", "_x", "_y", "_width", "_height",
     "_target_x", "_target_y"}

\* segment.py lines 133-143 without the .copy() of the speakers list
segment_copy_shares_list(h, self) == <<h, self>>

\* segment.py lines 129-143: a new Segment with a new list of the same speakers
segment_copy(h, self) ==
    <<Append(h, h[self._speakers]), [self EXCEPT !._speakers = Len(h) + 1]>>

\* segment.py lines 188-205
segment_eq(h, self, value) ==
    IF value.class # "Segment" THEN FALSE
    ELSE /\ h[self._speakers] = h[value._speakers]
         /\ self._start_time = value._start_time
         /\ self._end_time = value._end_time
         /\ self._x = value._x
         /\ self._y = value._y
         /\ self._width = value._width
         /\ self._height = value._height
         /\ self._target_x = value._target_x
         /\ self._target_y = value._target_y

\* segment.py lines 207-212
segment_ne(h, self, value) == ~segment_eq(h, self, value)

\* bool() of a number or of None
Truthy(v) == v # 0 /\ v # None

\* segment.py line 219 alone: the Segment has speakers
segment_bool_speakers_only(h, self) == h[self._speakers] # <<>>

\* segment.py lines 214-224
segment_bool(h, self) ==
    /\ h[self._speakers] # <<>>
    /\ Truthy(self._start_time)
    /\ Truthy(self._end_time)
    /\ Truthy(self._x)
    /\ Truthy(self._y)

\* bool(obj_self) and bool(obj_value) are evaluated, for two Segments
SegmentBool ==
    /\ obj_pc = "made"
    /\ obj_value.class = "Segment"
    /\ obj_result' = [self |-> segment_bool(obj_heap, obj_self),
                      value |-> segment_bool(obj_heap, obj_value)]
    /\ obj_pc' = "truth"
    /\ UNCHANGED <<obj_heap, obj_self, obj_value, obj_copy>>
    /\ UNCHANGED notObj

\* obj_self == obj_value and obj_self != obj_value are evaluated
SegmentCompare ==
    /\ obj_pc = "made"
    /\ obj_result' = [eq |-> segment_eq(obj_heap, obj_self, obj_value),
                      ne |-> segment_ne(obj_heap, obj_self, obj_value)]
    /\ obj_pc' = "compared"
    /\ UNCHANGED <<obj_heap, obj_self, obj_value, obj_copy>>
    /\ UNCHANGED notObj

\* obj_copy = obj_self.copy()
SegmentCopy ==
    /\ obj_pc = "compared"
    /\ obj_heap' = segment_copy(obj_heap, obj_self)[1]
    /\ obj_copy' = segment_copy(obj_heap, obj_self)[2]
    /\ obj_pc' = "copied"
    /\ UNCHANGED <<obj_self, obj_value, obj_result>>
    /\ UNCHANGED notObj

\* obj_copy.speakers.append(speaker): the list the copy refers to is mutated
SegmentCopyAppend ==
    /\ obj_pc = "copied"
    /\ \E speaker \in {0, 1} :
         obj_heap' = [obj_heap EXCEPT ![obj_copy._speakers] = Append(@, speaker)]
    /\ obj_pc' = "mutated"
    /\ UNCHANGED <<obj_self, obj_value, obj_copy, obj_result>>
    /\ UNCHANGED notObj

ObjNext ==
    \/ SegmentBool
    \/ SegmentCompare
    \/ SegmentCopy
    \/ SegmentCopyAppend

\* segment.py lines 19-63: a Segment whose _speakers is the list at address a
SegmentObject(a, start_time, end_time, x, y, width, height, target_x, target_y) ==
    [class |-> "Segment", _speakers |-> a, _start_time |-> start_time,
     _end_time |-> end_time, _x |-> x, _y |-> y, _width |-> width,
     _height |-> height, _target_x |-> target_x, _target_y |-> target_y]

\* the Segments compared: of a single crop (width, height, target_x and
\* target_y left None) and of a sub-crop of a split screen
BaseSegments ==
    { SegmentObject(1, 0, 1, 4, 0, None, None, None, None),
      SegmentObject(1, 1, 2, 0, 3, 20, 18, 0, 18) }

BaseSpeakers == {<<>>, <<0>>, <<0, 1>>}

\* another value of an attribute
Other(v) == IF v = None THEN 0 ELSE v + 1

\* the Segment objects that differ from self in exactly the attributes F; its
\* speakers list is the one at address 2
Variant(self, F) ==
    [f \in DOMAIN self |->
        IF f = "_speakers" THEN 2
        ELSE IF f \in F THEN Other(self[f])
        ELSE self[f]]

\* a value that is no Segment: None, or the dict of the same attributes
NonSegments(self) ==
    { [class |-> "NoneType"],
      [f \in DOMAIN self |-> IF f = "class" THEN "dict" ELSE self[f]] }

ObjStart ==
    /\ obj_self \in BaseSegments
    /\ \E sp \in BaseSpeakers, F \in SUBSET SegmentFields, non \in BOOLEAN :
         /\ Cardinality(F) <= MaxChangedFields
         /\ obj_heap = <<sp, IF "_speakers" \in F THEN Append(sp, 1) ELSE sp>>
         /\ IF non THEN obj_value \in NonSegments(obj_self)
                   ELSE obj_value = Variant(obj_self, F)
    /\ obj_copy = <<>>
    /\ obj_result = <<>>
    /\ obj_pc = "made"

ObjIdle ==
    /\ obj_heap = <<>>
    /\ obj_self = <<>>
    /\ obj_value = <<>>
    /\ obj_copy = <<>>
    /\ obj_result = <<>>
    /\ obj_pc = "idle"

-----------------------------------------------------------------------------
\* the components checked on their own are not running
UnitsIdle == ScanIdle /\ DimsIdle /\ BatchIdle /\ ObjIdle

-----------------------------------------------------------------------------
(* Resizer.resize: the pipeline *)

\* lines 765-770: the ROI of a segment without a face
DefaultRoi == Rect(video_width \div 4, video_height \div 4,
                   video_width \div 2, video_height \div 2)

\* lines 793-807: every detected box of the segment's frames, merged
calc_segment_rois(face_detections) == merge_rois(face_detections, <<1, 2>>)

\* line 85: samples_per_segment = 13, the default of resize
samples_per_segment == 13

\* lines 725-732 at a frame rate of one frame per tick: the frames left in
\* the first seven eighths after first_face_sec, at most samples_per_segment
NumRoiSamples(seg) ==
    Min((7 * (seg.end_time - seg.first_face_sec)) \div 8 + 1, samples_per_segment)

\* lines 721-732: a segment with a face is given num_samples
SampledSegment(seg) ==
    IF seg.found_face THEN seg @@ [num_samples |-> NumRoiSamples(seg)] ELSE seg

\* lines 756-787: one segment of a batch; num_samples (of a segment with a
\* face), found_face and first_face_sec are deleted and the crop is added
AddXYCoordsToSegment(seg, face_detections) ==
    LET sampled == SampledSegment(seg)
        rs == IF sampled.found_face THEN calc_segment_rois(face_detections)
              ELSE <<DefaultRoi>>
        base == DelKeys(IF sampled.found_face
                        THEN DelKeys(sampled, {"num_samples"})
                        ELSE sampled,
                        {"found_face", "first_face_sec"})
    IN  IF Len(rs) = 1
        THEN base @@ [x |-> calc_crop(rs[1], resize_width, resize_height).x,
                      y |-> calc_crop(rs[1], resize_width, resize_height).y,
                      crop_type |-> "single"]
        ELSE IF Len(rs) > 1
        THEN base @@ [crops |-> calc_split_screen_crops(rs, resize_width,
                                                        resize_height),
                      crop_type |-> "split"]
        ELSE base @@ [x |-> (video_width - resize_width) \div 2,
                      y |-> (video_height - resize_height) \div 2,
                      crop_type |-> "single"]

\* lines 753-791: dets[i] holds the boxes detected in the frames of segs[i]
add_x_y_coords_to_each_segment_batch(segs, dets) ==
    [i \in 1..Len(segs) |-> AddXYCoordsToSegment(segs[i], dets[i])]

RECURSIVE AddXYBatches(_, _, _, _, _)
\* lines 650-666: batch i and the batches after it
AddXYBatches(segs, dets, i, n_batches, segments_per_batch) ==
    LET lo == i * segments_per_batch
        hi == Min((i + 1) * segments_per_batch, Len(segs))
    IN  IF i >= n_batches \/ hi <= lo THEN <<>>
        ELSE add_x_y_coords_to_each_segment_batch(SubSeq(segs, lo + 1, hi),
                                                  SubSeq(dets, lo + 1, hi))
             \o AddXYBatches(segs, dets, i + 1, n_batches, segments_per_batch)

\* lines 643-667 with segments_per_batch = num_segments // n_batches
add_x_y_coords_to_each_segment_short_batches(segs, dets, n_batches) ==
    AddXYBatches(segs, dets, 0, n_batches, Len(segs) \div n_batches)

\* lines 643-667
add_x_y_coords_to_each_segment(segs, dets, n_batches) ==
    AddXYBatches(segs, dets, 0, n_batches, Len(segs) \div n_batches + 1)

\* segment.py lines 19-63

Segment(speakers, start_time, end_time, x, y, width, height, target_x, target_y) ==
    [speakers |-> speakers, start_time |-> start_time, end_time |-> end_time,
     x |-> x, y |-> y, width |-> width, height |-> height,
     target_x |-> target_x, target_y |-> target_y]

\* the keys resize reads from a sub-crop dict (lines 194-199)
CropKeys == {"x", "y", "width", "height", "target_x", "target_y"}

\* lines 176-201: the Segment objects made from one segment dict
SegmentsOf(seg) ==
    IF seg.crop_type = "single"
    THEN << Segment(seg.speakers, seg.start_time, seg.end_time, seg.x, seg.y,
                    None, None, None, None) >>
    ELSE [k \in 1..Len(seg.crops) |->
            Segment(seg.speakers, seg.start_time, seg.end_time,
                    seg.crops[k].x, seg.crops[k].y,
                    seg.crops[k].width, seg.crops[k].height,
                    seg.crops[k].target_x, seg.crops[k].target_y)]

RECURSIVE Flatten(_)
Flatten(ss) == IF ss = <<>> THEN <<>> ELSE Head(ss) \o Flatten(Tail(ss))

\* lines 174-201
CropSegmentsOf(segs) == Flatten([i \in 1..Len(segs) |-> SegmentsOf(segs[i])])

\* a sub-crop dict of a split segment lacks a key that lines 194-199 read
MissingCropKey(segs) ==
    \E i \in 1..Len(segs) :
        /\ segs[i].crop_type = "split"
        /\ \E k \in 1..Len(segs[i].crops) :
             ~(CropKeys \subseteq DOMAIN segs[i].crops[k])

\* the video, aspect ratio and faces the pipeline is exercised with
PipelineVideo == <<64, 36>>
PipelineAspectRatio == <<9, 16>>

\* the videos and aspect ratios resize is called with: landscape to portrait,
\* square to landscape, portrait to square
PipelineFormats ==
    { <<PipelineVideo, PipelineAspectRatio>>,
      <<<<64, 64>>, <<16, 9>>>>,
      <<<<48, 64>>, <<1, 1>>>> }
Face0 == Rect(0, 0, 8, 8)
Face1 == Rect(10, 10, 8, 8)
Face1b == Rect(12, 10, 8, 8)
Face2 == Rect(40, 10, 8, 8)
Face3 == Rect(24, 22, 8, 8)

\* what face detection may return over the sampled frames of one segment
FaceDetections ==
    { <<>>, <<Face0>>, <<Face1>>, <<Face1b>>, <<Face2>>, <<Face1, Face1b>>,
      <<Face1, Face2>>, <<Face1, Face2, Face3>> }

\* the batch counts _calc_n_batches may return
BatchCounts == 1..3

PipelineTimes == 0..4

PipelineSegmentInputs ==
    {<<>>} \cup
    { SegmentsOver(SortedSeq(B), [i \in 1..(Cardinality(B) - 1) |-> <<i - 1>>]) :
        B \in { X \in SUBSET PipelineTimes :
                  Cardinality(X) >= 2 /\ Cardinality(X) <= 3 } }

PipelineSceneInputs == {<<>>} \cup { <<t>> : t \in 0..5 }

ResizeStart ==
    /\ \E f \in PipelineFormats :
         /\ video_width = f[1][1]
         /\ video_height = f[1][2]
         /\ resize_width = calc_resize_width_and_height_pixels(
                              f[1][1], f[1][2], f[2])[1]
         /\ resize_height = calc_resize_width_and_height_pixels(
                               f[1][1], f[1][2], f[2])[2]
    /\ layout_rois = <<>>
    /\ crops = <<>>
    /\ layout_pc = "idle"
    /\ speaker_segments \in PipelineSegmentInputs
    /\ scene_changes \in PipelineSceneInputs
    /\ scene_merge_threshold = 2
    /\ scene_i = 0
    /\ segments_idx = 0
    /\ merger_pc = "loop"
    /\ input_segments = speaker_segments
    /\ decisions = <<>>
    /\ crop_segments = <<>>
    /\ scanned_found_face = <<>>
    /\ roi_face_detections = <<>>
    /\ resize_pc = "merge"

ResizeIdle(w, h) ==
    /\ video_width = w
    /\ video_height = h
    /\ crop_segments = <<>>
    /\ scanned_found_face = <<>>
    /\ roi_face_detections = <<>>
    /\ resize_pc = "idle"

\* lines 143-145: the merger raised IndexError, and so does resize
ResizeMergeFails ==
    /\ resize_pc = "merge"
    /\ merger_pc = "IndexError"
    /\ resize_pc' = "IndexError"
    /\ UNCHANGED <<video_width, video_height, crop_segments, scanned_found_face,
                   roi_face_detections>>
    /\ UNCHANGED <<mergerVars, roisVars, layoutVars, coalesceVars, unitVars>>

\* lines 149-151: _find_first_sec_with_face_for_each_segment; whether a face
\* is found in a segment is up to the face detector, so found_face is drawn
\* freely; first_face_sec only selects the frames sampled afterwards and is
\* given the value it starts the scan with on this grid, the segment's start
ResizeFindFaces ==
    /\ resize_pc = "merge"
    /\ merger_pc = "returned"
    /\ \E found \in [1..Len(speaker_segments) -> BOOLEAN] :
         /\ segments' = [i \in 1..Len(speaker_segments) |->
                           speaker_segments[i] @@
                           [found_face |-> found[i],
                            first_face_sec |-> speaker_segments[i].start_time]]
         /\ scanned_found_face' = found
    /\ resize_pc' = "roi"
    /\ UNCHANGED <<idx, coalesce_pc, video_width, video_height, crop_segments,
                   roi_face_detections>>
    /\ UNCHANGED <<mergerVars, roisVars, layoutVars, unitVars>>

\* lines 156-164: _add_x_y_coords_to_each_segment; dets[i] is what the face
\* detector returns over the frames sampled from segment i (lines 719-746)
ResizeAddXY ==
    /\ resize_pc = "roi"
    /\ \E dets \in [1..Len(segments) -> FaceDetections], n_batches \in BatchCounts :
         /\ \A i \in 1..Len(segments) : ~segments[i].found_face => dets[i] = <<>>
         /\ segments' = add_x_y_coords_to_each_segment(segments, dets, n_batches)
         /\ roi_face_detections' = dets
    /\ idx' = 0
    /\ coalesce_pc' = "loop"
    /\ resize_pc' = "coalesce"
    /\ UNCHANGED <<video_width, video_height, crop_segments, scanned_found_face>>
    /\ UNCHANGED <<mergerVars, roisVars, layoutVars, unitVars>>

\* lines 174-211: every crop dict has the keys read, the Crops are returned
ResizeReturn ==
    /\ resize_pc = "coalesce"
    /\ coalesce_pc = "returned"
    /\ ~MissingCropKey(segments)
    /\ crop_segments' = CropSegmentsOf(segments)
    /\ resize_pc' = "returned"
    /\ UNCHANGED <<video_width, video_height, scanned_found_face,
                   roi_face_detections>>
    /\ UNCHANGED <<mergerVars, roisVars, layoutVars, coalesceVars, unitVars>>

\* lines 194-199: crop["target_x"] raises KeyError
ResizeKeyError ==
    /\ resize_pc = "coalesce"
    /\ coalesce_pc = "returned"
    /\ MissingCropKey(segments)
    /\ resize_pc' = "KeyError"
    /\ UNCHANGED <<video_width, video_height, crop_segments, scanned_found_face,
                   roi_face_detections>>
    /\ UNCHANGED <<mergerVars, roisVars, layoutVars, coalesceVars, unitVars>>

ResizeNext ==
    \/ MergerNext
    \/ ResizeMergeFails
    \/ ResizeFindFaces
    \/ ResizeAddXY
    \/ CoalesceNext
    \/ ResizeReturn
    \/ ResizeKeyError

-----------------------------------------------------------------------------
(* Specifications *)

\* the TimelineMerger on every ordered, contiguous input
MergerInit ==
    /\ MergerStart /\ RoisIdle /\ LayoutIdle /\ CoalesceIdle /\ ResizeIdle(0, 0)
    /\ UnitsIdle

SpecMerge == MergerInit /\ [][MergerNext]_vars

\* the TimelineMerger on every input, malformed ones included
MergerAnyInit ==
    /\ MergerAnyStart /\ RoisIdle /\ LayoutIdle /\ CoalesceIdle /\ ResizeIdle(0, 0)
    /\ UnitsIdle

SpecMergeAny == MergerAnyInit /\ [][MergerNext]_vars

\* merge_rois on every list of rectangles, and on its own result
RoisInit ==
    /\ RoisStart /\ MergerIdle /\ LayoutIdle /\ CoalesceIdle /\ ResizeIdle(0, 0)
    /\ UnitsIdle

SpecRois == RoisInit /\ [][RoisNext]_vars

\* _calc_split_screen_crops on every list of ROIs and canvas size
LayoutInit ==
    /\ LayoutStart /\ MergerIdle /\ RoisIdle /\ CoalesceIdle /\ ResizeIdle(0, 0)
    /\ UnitsIdle

SpecLayout == LayoutInit /\ [][LayoutNext]_vars

\* _merge_identical_segments on every list of cropped segments
CoalesceInit ==
    /\ CoalesceStart /\ MergerIdle /\ RoisIdle /\ LayoutIdle
    /\ \E wh \in CoalesceVideos : ResizeIdle(wh[1], wh[2])
    /\ UnitsIdle

SpecCoalesce == CoalesceInit /\ [][CoalesceNext]_vars

\* _find_first_sec_with_face_for_each_segment on every list of segments and
\* every video
ScanInit ==
    /\ ScanStart /\ MergerIdle /\ RoisIdle /\ LayoutIdle /\ CoalesceIdle
    /\ ResizeIdle(0, 0)
    /\ DimsIdle /\ BatchIdle /\ ObjIdle

SpecScan == ScanInit /\ [][ScanNext]_vars

ScanLooseInit ==
    /\ ScanLooseStart
    /\ MergerIdle /\ RoisIdle /\ LayoutIdle /\ CoalesceIdle /\ ResizeIdle(0, 0)
    /\ DimsIdle /\ BatchIdle /\ ObjIdle

\* the scanner is a sequential loop: a step that can be taken is taken
SpecScanLive == ScanLooseInit /\ [][ScanNext]_vars /\ WF_vars(ScanNext)

\* _calc_resize_width_and_height_pixels on every video size and aspect ratio
DimsInit ==
    /\ DimsStart /\ MergerIdle /\ RoisIdle /\ LayoutIdle /\ CoalesceIdle
    /\ ResizeIdle(0, 0)
    /\ ScanIdle /\ BatchIdle /\ ObjIdle

SpecDims == DimsInit /\ [][DimsNext]_vars

\* _calc_n_batches on every call and every amount of free memory, and the
\* batches its callers then form
BatchInit ==
    /\ BatchStart /\ MergerIdle /\ RoisIdle /\ LayoutIdle /\ CoalesceIdle
    /\ ResizeIdle(0, 0)
    /\ ScanIdle /\ DimsIdle /\ ObjIdle

SpecBatch == BatchInit /\ [][BatchNext]_vars

\* Segment.__eq__, __ne__ and copy on Segments and other values
ObjInit ==
    /\ ObjStart /\ MergerIdle /\ RoisIdle /\ LayoutIdle /\ CoalesceIdle
    /\ ResizeIdle(0, 0)
    /\ ScanIdle /\ DimsIdle /\ BatchIdle

SpecSegment == ObjInit /\ [][ObjNext]_vars

\* resize from its call to its return
Init == ResizeStart /\ RoisIdle /\ CoalesceIdle /\ UnitsIdle

Next == ResizeNext

Spec == Init /\ [][Next]_vars

-----------------------------------------------------------------------------
(* Claims about the TimelineMerger *)

Contiguous(segs) ==
    \A i \in 1..(Len(segs) - 1) : segs[i].end_time = segs[i + 1].start_time

DecisionSet == { decisions[i] : i \in DOMAIN decisions }

NumSplits == Cardinality({ i \in DOMAIN decisions : decisions[i] = "split" })

C2_Coverage ==
    (merger_pc = "returned" /\ Len(input_segments) > 0) =>
        /\ speaker_segments[1].start_time = input_segments[1].start_time
        /\ Last(speaker_segments).end_time = Last(input_segments).end_time

\* C3: a split of segment [s,e] at t replaces it by [s,t] immediately
\* followed by [t,e], both with the speakers of the split segment, and leaves
\* every other segment as it was and in its order; any other decision keeps
\* the length, so the list grows by one per split.
C3_SplitStep ==
    (/\ Len(decisions') = Len(decisions) + 1
     /\ Last(decisions') = "split") =>
        LET i == segments_idx' + 1
            old == speaker_segments[i]
            t == scene_changes[scene_i + 1]
        IN  /\ Len(speaker_segments') = Len(speaker_segments) + 1
            /\ speaker_segments'[i] =
                 [start_time |-> old.start_time, end_time |-> t,
                  speakers |-> old.speakers]
            /\ speaker_segments'[i + 1] =
                 [start_time |-> t, end_time |-> old.end_time,
                  speakers |-> old.speakers]
            /\ \A j \in 1..(i - 1) : speaker_segments'[j] = speaker_segments[j]
            /\ \A j \in (i + 1)..Len(speaker_segments) :
                 speaker_segments'[j + 1] = speaker_segments[j]

C3_Split ==
    /\ [][C3_SplitStep]_vars
    /\ [](Len(speaker_segments) = Len(input_segments) + NumSplits)

C3_Witness ==
    /\ merger_pc = "returned"
    /\ NumSplits >= 2
    /\ Len(input_segments) = 2
    /\ input_segments[1].speakers # input_segments[2].speakers
    /\ decisions[1] = "split"

-----------------------------------------------------------------------------
(* Claims about the ROIMerger *)

\* C8: no two distinct rectangles returned by merge_rois have an IoU above
\* the threshold, so no further merge is possible among the outputs.
C8_FixedPoint ==
    (rois_pc # "idle" /\ rois_pc # "input") =>
        \A i, j \in DOMAIN merged :
            i # j => ~IouExceeds(merged[i], merged[j], overlap_threshold)

\* C9: merging is idempotent: merge_rois(merge_rois(x)) = merge_rois(x),
\* the same rectangles in the same order.
C9_Idempotent == rois_pc = "remerged" => remerged = merged

-----------------------------------------------------------------------------
(* Claims about the LayoutCalculator *)

\* C6: for exactly two ROIs and any canvas, the two sub-crops sit at
\* target_y = i * (height div 2) for i = 0, 1, each as wide as the canvas and
\* half as high.
C6_TwoRoiSplit ==
    (layout_pc = "returned" /\ Len(layout_rois) = 2) =>
        /\ Len(crops) = 2
        /\ \A k \in 1..2 :
            /\ crops[k].target_y = (k - 1) * (resize_height \div 2)
            /\ crops[k].width = resize_width
            /\ crops[k].height = resize_height \div 2
        /\ { crops[k].target_y : k \in 1..2 } = {0, resize_height \div 2}

C6_Witness ==
    /\ layout_pc = "returned"
    /\ Len(layout_rois) = 2
    /\ resize_height = 1080
    /\ crops[2].target_y = 540

GridLayoutOk ==
    LET n == Len(layout_rois)
        grid_size == CeilSqrt(n)
        cell_width == resize_width \div grid_size
        cell_height == resize_height \div grid_size
    IN  /\ Len(crops) = n
        /\ \A k \in 1..n :
            /\ crops[k].width = cell_width
            /\ crops[k].height = cell_height
            /\ crops[k].target_x = ((k - 1) % grid_size) * cell_width
            /\ crops[k].target_y = ((k - 1) \div grid_size) * cell_height
            /\ crops[k].target_x + cell_width <= resize_width
            /\ crops[k].target_y + cell_height <= resize_height
        /\ \A k, l \in 1..n :
            k # l => <<crops[k].target_x, crops[k].target_y>>
                        # <<crops[l].target_x, crops[l].target_y>>
        /\ n = 4 =>
            /\ { <<crops[k].target_x, crops[k].target_y>> : k \in 1..n }
                 = { <<tx, ty>> : tx \in {0, resize_width \div 2},
                                  ty \in {0, resize_height \div 2} }
            /\ \A tx \in {0, resize_width \div 2}, ty \in {0, resize_height \div 2} :
                 Cardinality({ k \in 1..n : crops[k].target_x = tx
                                            /\ crops[k].target_y = ty }) = 1

\* C7 as stated: for three or more ROIs every sub-crop is a grid cell of
\* (width div grid_size) x (height div grid_size) at its row-major position,
\* the positions are pairwise distinct and inside the canvas, and for four
\* ROIs they are {0, width/2} x {0, height/2}, each once.
C7_Grid_Original ==
    (layout_pc = "returned" /\ Len(layout_rois) >= 3) => GridLayoutOk

\* C7 as amended: the same, for a canvas at least grid_size pixels wide and
\* high (so that a cell is at least one pixel in each direction).
C7_Grid ==
    (/\ layout_pc = "returned"
     /\ Len(layout_rois) >= 3
     /\ resize_width >= CeilSqrt(Len(layout_rois))
     /\ resize_height >= CeilSqrt(Len(layout_rois))) => GridLayoutOk

C7_Witness ==
    /\ layout_pc = "returned"
    /\ Len(layout_rois) = 5
    /\ resize_width = 607
    /\ resize_height = 1080
    /\ crops[5].target_x = 202
    /\ crops[5].target_y = 360

-----------------------------------------------------------------------------
(* Claims about resize end to end *)

SameTimeRange(a, b) == a.start_time = b.start_time /\ a.end_time = b.end_time

TwoRoiSegment(seg) == seg.crop_type = "split" /\ Len(seg.crops) = 2

\* C5: with a segment of exactly two ROIs, resize completes without error
\* and returns that segment as two sub-crops stacked vertically, each with
\* x, y, width, height, target_x and target_y.
C5_TwoRoiEndToEnd ==
    (/\ resize_pc \in {"returned", "KeyError"}
     /\ \E i \in 1..Len(segments) : TwoRoiSegment(segments[i])) =>
        /\ resize_pc = "returned"
        /\ \A i \in 1..Len(segments) :
            TwoRoiSegment(segments[i]) =>
                \E k \in 1..(Len(crop_segments) - 1) :
                    /\ SameTimeRange(crop_segments[k], segments[i])
                    /\ SameTimeRange(crop_segments[k + 1], segments[i])
                    /\ \A f \in CropKeys : crop_segments[k][f] # None
                    /\ \A f \in CropKeys : crop_segments[k + 1][f] # None
                    /\ crop_segments[k].target_y = 0
                    /\ crop_segments[k + 1].target_y = resize_height \div 2

-----------------------------------------------------------------------------
(* Claims about the SegmentCoalescer *)

\* two segments the coalescer would merge
WouldMerge(a, b) ==
    /\ a.crop_type = b.crop_type
    /\ a.crop_type = "single" =>
         are_single_crops_similar(a, b, video_width, video_height,
                                  max_position_difference_ratio)
    /\ a.crop_type = "split" =>
         are_split_crops_similar(a.crops, b.crops, video_width, video_height,
                                 max_position_difference_ratio)

\* C10: no two adjacent segments of the list returned by
\* _merge_identical_segments have the same crop_type and coordinate deltas
\* below the 0.04 ratio on every compared coordinate.
C10_FixedPoint ==
    coalesce_pc = "returned" =>
        \A k \in 1..(Len(segments) - 1) : ~WouldMerge(segments[k], segments[k + 1])

-----------------------------------------------------------------------------
\* C11: each time the coalescer compares two adjacent segments of the same
\* crop type, it merges them (the list gets one shorter) exactly when every
\* corresponding pair of coordinates differs by strictly less than 0.04 = 1/25
\* of the source width (x) and of the source height (y), and, for split
\* segments, the sub-crop counts are equal; on a 1000x1000 source with equal
\* y, an x difference of 30 merges and one of 40 or 50 does not.
StrictlyClose(c1, c2) ==
    /\ 25 * Abs(c1.x - c2.x) < video_width
    /\ 25 * Abs(c1.y - c2.y) < video_height

Merges == Len(segments') = Len(segments) - 1

C11_Step ==
    (CoalesceLoop /\ current_segment.crop_type = next_segment.crop_type) =>
        /\ current_segment.crop_type = "single" =>
              /\ Merges <=> StrictlyClose(current_segment, next_segment)
              /\ ( /\ video_width = 1000 /\ video_height = 1000
                   /\ current_segment.y = next_segment.y ) =>
                    LET d == Abs(current_segment.x - next_segment.x)
                    IN  /\ d = 30 => Merges
                        /\ d \in {40, 50} => ~Merges
        /\ current_segment.crop_type = "split" =>
              ( Merges <=>
                  /\ Len(current_segment.crops) = Len(next_segment.crops)
                  /\ \A k \in 1..Len(current_segment.crops) :
                       StrictlyClose(current_segment.crops[k],
                                     next_segment.crops[k]) )

C11_Similarity == [][C11_Step]_vars

\* on the 1000x1000 source, x = 40 and x = 0 (difference exactly 40) were
\* kept apart and x = 0 and x = 30 were merged into x = 15
C11_Witness ==
    /\ coalesce_pc = "returned"
    /\ video_width = 1000 /\ video_height = 1000
    /\ Len(segments) = 2
    /\ segments[1].crop_type = "single" /\ segments[2].crop_type = "single"
    /\ segments[1].x = 40 /\ segments[2].x = 15
    /\ segments[2].start_time = 1 /\ segments[2].end_time = 3

-----------------------------------------------------------------------------
(* Claims about the FacePresenceScanner *)

\* C12: for the single segment [0, 10] and a video that shows a face only at
\* t = 9.5, the scanner returns found_face = true with first_face_sec within
\* a quarter of a second of 9.5.
C12_LateFace ==
    ( /\ scan_pc = "returned"
      /\ Len(scan_segments) = 1
      /\ scan_segments[1].start_time = 0
      /\ scan_segments[1].end_time = 10 * sample_period
      /\ face_shown = {<<19 * (sample_period \div 2), 19 * (sample_period \div 2)>>} )
    => /\ scan_segments[1].found_face
       /\ Abs(scan_segments[1].first_face_sec - 19 * (sample_period \div 2))
            <= QuarterSec

\* C13: a segment with found_face = true has first_face_sec < end_time - 0.25,
\* whatever the segment (the shortest ones included) and whatever the video
\* shows.
C13_Bound ==
    \A i \in 1..Len(scan_segments) :
        ( /\ "found_face" \in DOMAIN scan_segments[i]
          /\ scan_segments[i].found_face )
        => scan_segments[i].first_face_sec
             < scan_segments[i].end_time - QuarterSec

-----------------------------------------------------------------------------
(* Claims about the crop dimensions *)

\* C14, as stated: a 1920x1080 source and a 9:16 target give a crop of
\* 608 x 1080.
C14_Dims_Original ==
    ( /\ dims_pc = "returned"
      /\ original_size = <<1920, 1080>>
      /\ aspect_ratio = <<9, 16>> )
    => resize_size = <<608, 1080>>

\* C14, as amended: a 1920x1080 source and a 9:16 target give a crop of
\* 607 x 1080, 607 being 1080 * 9 / 16 = 607.5 rounded down; and whenever the
\* source is wider than the target ratio the crop keeps the source height and
\* has the largest width with width / height <= the target ratio.
C14_Dims ==
    dims_pc = "returned" =>
        /\ ( original_size = <<1920, 1080>> /\ aspect_ratio = <<9, 16>> )
             => resize_size = <<607, 1080>>
        /\ original_size[1] * aspect_ratio[2] > aspect_ratio[1] * original_size[2]
             => /\ resize_size[2] = original_size[2]
                /\ resize_size[1] * aspect_ratio[2] <= aspect_ratio[1] * resize_size[2]
                /\ (resize_size[1] + 1) * aspect_ratio[2]
                     > aspect_ratio[1] * resize_size[2]

C14_Witness ==
    /\ dims_pc = "returned"
    /\ original_size = <<1920, 1080>>
    /\ aspect_ratio = <<9, 16>>
    /\ resize_size[2] = 1080

-----------------------------------------------------------------------------
(* Claims about the BatchSizer *)

\* C15: for every frame count, frame size and free memory >= 0,
\* _calc_n_batches never divides by zero and returns a batch count >= 1, a
\* reported free memory of 0 included.
C15_AtLeastOneBatch ==
    /\ batch_pc # "ZeroDivisionError"
    /\ batch_pc \in {"returned", "batched"} => batch_n >= 1

\* the frames of the largest batch the caller forms from num_frames frames
\* when it is told to use n batches (lines 406-417, 648-666)
LargestBatch(a, n) ==
    IF a.caller = "scanner"
    THEN Min(a.num_items \div n + 1, a.num_items)
    ELSE Min(a.num_items \div n + 1, a.num_items) * a.samples_per_segment

\* the bytes of CPU memory one batch of that size needs (extraction, and
\* detection too when there is no GPU)
BatchBytes(a, frames) ==
    frames * (ExtractBytesPerFrame(a)
                + (IF a.cuda THEN 0 ELSE DetectBytesPerFrame(a)))

Fits(a, n) == BatchBytes(a, LargestBatch(a, n)) <= a.free_cpu_memory

\* C16: when some batch count fits, the batch count returned is the least one
\* for which the bytes of the largest batch the caller forms fit the free
\* memory.
C16_Budget ==
    ( /\ batch_pc = "batched"
      /\ \E n \in 1..(NumFrames(batch_args) + 1) : Fits(batch_args, n) )
    => /\ Fits(batch_args, batch_n)
       /\ \A n \in 1..(batch_n - 1) : ~Fits(batch_args, n)

-----------------------------------------------------------------------------
(* Claims about the ROI stage *)

\* C17: resize never gets past the ROI stage with a segment for which the
\* scanner found a face and the ROI stage detected no face in any sampled
\* frame; such a segment is not given a crop.
C17_ZeroFacesIsFatal ==
    resize_pc \in {"coalesce", "returned", "KeyError"} =>
        \A i \in 1..Len(scanned_found_face) :
            ~(scanned_found_face[i] /\ roi_face_detections[i] = <<>>)

-----------------------------------------------------------------------------
(* Claims about malformed input *)

\* the segments are not in order, or one has zero or negative duration
MalformedSegments(segs) ==
    \/ \E i \in 1..Len(segs) : segs[i].end_time <= segs[i].start_time
    \/ \E i \in 1..(Len(segs) - 1) : segs[i + 1].start_time < segs[i].end_time

\* the scene changes are not increasing, or one lies outside the range the
\* segments cover
MalformedSceneChanges(segs, changes) ==
    \/ \E i \in 1..(Len(changes) - 1) : changes[i + 1] <= changes[i]
    \/ \E i \in 1..Len(changes) :
         \/ segs = <<>>
         \/ changes[i] < segs[1].start_time
         \/ changes[i] > Last(segs).end_time

\* C18: for malformed speaker segments or scene changes the merger does no
\* processing: it takes no decision, modifies no segment record and returns
\* no merged list.
C18_Rejected ==
    ( \/ MalformedSegments(input_segments)
      \/ MalformedSceneChanges(input_segments, scene_changes) )
    => /\ decisions = <<>>
       /\ speaker_segments = input_segments
       /\ merger_pc # "returned"

-----------------------------------------------------------------------------
(* Claims about scene changes on a boundary *)

\* C20: a scene change equal to the end_time of its owning segment leaves the
\* whole segment list as it is, whatever the length of the owning segment.
C20_Step ==
    (Found /\ scene_change_sec = segment.end_time) =>
        speaker_segments' = speaker_segments

C20_BoundaryNoOp == [][C20_Step]_vars

-----------------------------------------------------------------------------
(* Claims about Segment *)

\* the nine attributes of two Segments are equal, the speakers as lists
StructurallyEqual(h, a, b) ==
    /\ h[a._speakers] = h[b._speakers]
    /\ \A f \in SegmentFields \ {"_speakers"} : a[f] = b[f]

\* C19: s == v is true exactly when v is a Segment with the same speakers,
\* start_time, end_time, x, y, width, height, target_x and target_y; s != v
\* is its negation; s.copy() equals s and holds a list of its own, so that
\* appending to the copy's speakers leaves those of s as they were.
C19_Equality ==
    /\ obj_pc \in {"compared", "copied", "mutated"} =>
         /\ obj_result.eq <=> ( /\ obj_value.class = "Segment"
                                /\ StructurallyEqual(obj_heap, obj_self, obj_value) )
         /\ obj_result.ne <=> ~obj_result.eq
    /\ obj_pc = "copied" =>
         /\ obj_copy.class = "Segment"
         /\ StructurallyEqual(obj_heap, obj_copy, obj_self)
         /\ obj_copy._speakers # obj_self._speakers
    /\ obj_pc = "mutated" =>
         /\ Len(obj_heap[obj_copy._speakers])
              = Len(obj_heap[obj_self._speakers]) + 1
         /\ SubSeq(obj_heap[obj_copy._speakers], 1,
                   Len(obj_heap[obj_self._speakers]))
              = obj_heap[obj_self._speakers]

\* a Segment compared equal to another Segment with a list of its own, was
\* copied, and the copy's speakers were appended to
C19_Witness ==
    /\ obj_pc = "mutated"
    /\ obj_value.class = "Segment"
    /\ obj_result.eq
    /\ obj_heap[obj_self._speakers] = <<0, 1>>
    /\ Len(obj_heap[obj_copy._speakers]) = 3

-----------------------------------------------------------------------------
(* Claims about the shape of the merged timeline *)

\* every segment has positive duration and the segments follow one another
\* by start_time
WellFormed(segs) ==
    /\ \A i \in 1..Len(segs) : segs[i].start_time < segs[i].end_time
    /\ \A i \in 1..(Len(segs) - 1) :
         segs[i].start_time <= segs[i + 1].start_time

\* C21: for sorted, contiguous speaker segments of positive duration and
\* strictly increasing scene changes within [first.start, last.end], every
\* segment the merger returns has start_time < end_time and the returned
\* list is sorted by start_time.
C21_WellFormed ==
    ( /\ merger_pc = "returned"
      /\ ~MalformedSegments(input_segments)
      /\ ~MalformedSceneChanges(input_segments, scene_changes) )
    => WellFormed(speaker_segments)

-----------------------------------------------------------------------------
(* Claims about the scanner's loop *)

\* the scanner has returned and every segment is resolved: a face was found,
\* or none was and the cursor is within 0.25 s of the segment's end or past it
ScanResolved ==
    /\ scan_pc = "returned"
    /\ \A i \in 1..Len(scan_segments) :
         \/ scan_segments[i].found_face
         \/ scan_segments[i].first_face_sec
              >= scan_segments[i].end_time - QuarterSec

\* C22: for every list of segments with start_time <= end_time and every
\* behaviour of the face detector, a detector that never returns a face
\* included, the scanning loop ends and returns with every segment resolved:
\* found_face = true, or found_face = false with first_face_sec >=
\* end_time - 0.25.
C22_Terminates == <>ScanResolved

\* the scanner returned for a zero-length segment and a four second segment
\* in which the detector never returned a face, after three rounds
C22_Witness ==
    /\ ScanResolved
    /\ face_shown = {}
    /\ Len(scan_segments) = 2
    /\ scan_segments[1].start_time = scan_segments[1].end_time
    /\ scan_segments[2].start_time = 0
    /\ scan_segments[2].end_time = 4 * sample_period
    /\ ~scan_segments[1].found_face /\ ~scan_segments[2].found_face
    /\ batch_period = 50 * sample_period

\* the times one unresolved segment is sampled at in a round (lines 392-398)
OwnSamples(seg, period) ==
    [k \in 1..NumSamples(seg, period) |->
        seg.first_face_sec + (k - 1) * sample_period]

\* the outcome of a round for one unresolved segment, from the detections at
\* its own samples in the order of their times: the earliest sample with a
\* face, or the cursor moved by one sample_period per sample
OutcomeFromOwnSamples(seg, after, period) ==
    LET own == OwnSamples(seg, period)
        hits == { k \in 1..Len(own) : FaceAt(own[k]) }
    IN  IF hits # {}
        THEN /\ after.found_face
             /\ after.first_face_sec = own[SetMin(hits)]
        ELSE /\ ~after.found_face
             /\ after.first_face_sec
                  = seg.first_face_sec + Len(own) * sample_period

\* C23: in a round that samples several unresolved segments, with the times
\* split over any number of batches, the outcome of each segment depends only
\* on the detections at its own sampled times: with a face, first_face_sec is
\* the earliest of its sampled times at which the detector returned one;
\* without, the cursor moved by one sample period per sample.  A resolved
\* segment is left as it is.
C23_Step ==
    (scan_pc = "loop" /\ scan_pc' = "loop") =>
        \A i \in 1..Len(scan_segments) :
            IF scan_segments[i].is_analyzed
            THEN scan_segments'[i] = scan_segments[i]
            ELSE OutcomeFromOwnSamples(scan_segments[i], scan_segments'[i],
                                       batch_period)

C23_Aligned == [][C23_Step]_vars

\* the second round sampled [0, 4] at 1.5 and 2.5 and [4, 10] at 5.75, 6.75,
\* 7.75 and 8.75, with a face shown from 6.5 to 7.0: the first segment moved
\* its cursor by two, the second found the face at its second sample
C23_Witness ==
    /\ scan_pc = "loop"
    /\ batch_period = 22 * sample_period
    /\ Len(scan_segments) = 2
    /\ scan_segments[1].end_time = 4 * sample_period
    /\ scan_segments[2].end_time = 10 * sample_period
    /\ face_shown = {<<13 * (sample_period \div 2), 14 * (sample_period \div 2)>>}
    /\ ~scan_segments[1].found_face
    /\ scan_segments[1].first_face_sec = 7 * (sample_period \div 2)
    /\ scan_segments[2].found_face
    /\ scan_segments[2].first_face_sec = 27 * QuarterSec

-----------------------------------------------------------------------------
(* Claims about the effect of a coalescer merge *)

\* the coalescer removes a segment in this step
CoalescerMerges == coalesce_pc = "loop" /\ Len(segments') < Len(segments)

\* merged is first with the x and y of second averaged in by integer division
AveragedCoords(first, second, result) ==
    /\ result.x = (first.x + second.x) \div 2
    /\ result.y = (first.y + second.y) \div 2
    /\ \A f \in DOMAIN first \ {"x", "y", "end_time"} : result[f] = first[f]

\* C24: a merge keeps the first segment of the pair with its start_time and
\* speakers, gives each of its x and y (of each sub-crop, for split) the
\* value (a + b) div 2 of the pair, gives it the second segment's end_time,
\* removes the second segment and leaves every other segment as it is; so the
\* first start_time, the last end_time and contiguity are preserved.
C24_Step ==
    CoalescerMerges =>
        LET first == segments[idx + 1]
            second == segments[idx + 2]
            result == segments'[idx + 1]
        IN  /\ Len(segments') = Len(segments) - 1
            /\ DOMAIN result = DOMAIN first
            /\ result.start_time = first.start_time
            /\ result.speakers = first.speakers
            /\ result.crop_type = first.crop_type
            /\ result.end_time = second.end_time
            /\ first.crop_type = "single" =>
                 AveragedCoords(first, second, result)
            /\ first.crop_type = "split" =>
                 /\ Len(result.crops) = Len(first.crops)
                 /\ Len(second.crops) = Len(first.crops)
                 /\ \A k \in 1..Len(first.crops) :
                      /\ DOMAIN result.crops[k] = DOMAIN first.crops[k]
                      /\ AveragedCoords(first.crops[k], second.crops[k],
                                        result.crops[k])
            /\ \A j \in 1..idx : segments'[j] = segments[j]
            /\ \A j \in (idx + 2)..Len(segments') : segments'[j] = segments[j + 1]
            /\ segments'[1].start_time = segments[1].start_time
            /\ Last(segments').end_time = Last(segments).end_time
            /\ Contiguous(segments) => Contiguous(segments')

C24_MergeEffect == [][C24_Step]_vars

\* two single crops at y = 0 and y = 2 were merged into one at y = 1 that
\* ends where the second one ended, ahead of a segment left as it was
C24_Witness ==
    /\ coalesce_pc = "loop"
    /\ Len(segments) = 2
    /\ segments[1].crop_type = "single"
    /\ segments[1].y = 1
    /\ segments[1].start_time = 0 /\ segments[1].end_time = 2
    /\ segments[2].start_time = 2 /\ segments[2].end_time = 3

-----------------------------------------------------------------------------
(* Claims about crop origins *)

\* the origin of a single crop, and of every sub-crop of a split, is not
\* negative
OriginsNonNegative(segs) ==
    \A i \in 1..Len(segs) :
        IF segs[i].crop_type = "single"
        THEN segs[i].x >= 0 /\ segs[i].y >= 0
        ELSE \A k \in 1..Len(segs[i].crops) :
                 segs[i].crops[k].x >= 0 /\ segs[i].crops[k].y >= 0

\* every crop origin is non-negative once the ROI stage has run, through the
\* coalescer and in the Segments returned
PlanOriginsNonNegative ==
    /\ resize_pc \in {"coalesce", "returned", "KeyError"} =>
         OriginsNonNegative(segments)
    /\ \A i \in 1..Len(crop_segments) :
         crop_segments[i].x >= 0 /\ crop_segments[i].y >= 0

\* the ROI stage gives a segment with a single ROI the origin
\* max(center - size div 2, 0) on each axis, center = origin + size div 2
SingleRoiOrigin ==
    (resize_pc = "roi" /\ resize_pc' = "coalesce") =>
        \A i \in 1..Len(segments) :
            LET rs == IF segments[i].found_face
                      THEN calc_segment_rois(roi_face_detections'[i])
                      ELSE <<DefaultRoi>>
            IN  Len(rs) = 1 =>
                  /\ segments'[i].crop_type = "single"
                  /\ segments'[i].x
                       = Max(rs[1].x + rs[1].width \div 2 - resize_width \div 2, 0)
                  /\ segments'[i].y
                       = Max(rs[1].y + rs[1].height \div 2 - resize_height \div 2, 0)

\* C25: every crop origin of the plan has x >= 0 and y >= 0, for single
\* crops and split sub-crops, with a detected ROI, the default ROI of a
\* segment without a face, the centered fallback for zero ROIs and the
\* averages of the coalescer; a single ROI gives the origin
\* max(center - size div 2, 0) on each axis.
C25_Origins == []PlanOriginsNonNegative /\ [][SingleRoiOrigin]_vars

\* a plan of three crops was returned: the centered fallback for a segment
\* with a face found and none detected, a crop clamped to the corner for a
\* face at the video's corner, and the default ROI for a segment without one
C25_Witness ==
    /\ resize_pc = "returned"
    /\ video_width = 64
    /\ scanned_found_face = <<TRUE, TRUE, FALSE>>
    /\ roi_face_detections = << <<>>, <<Face0>>, <<>> >>
    /\ Len(crop_segments) = 3
    /\ crop_segments[1].x = 22 /\ crop_segments[1].y = 0
    /\ crop_segments[2].x = 0 /\ crop_segments[2].y = 0
    /\ crop_segments[3].x = 22

-----------------------------------------------------------------------------
(* Claims about the batches of the ROI stage *)

\* the fields that the scanner and the ROI stage keep on a segment while
\* they work
TemporaryFields == {"found_face", "first_face_sec", "num_samples"}

\* the ROI stage gave the segment a crop and removed the temporary fields
HasCrop(seg) ==
    /\ seg.crop_type \in {"single", "split"}
    /\ seg.crop_type = "single" => {"x", "y"} \subseteq DOMAIN seg
    /\ seg.crop_type = "split" =>
         "crops" \in DOMAIN seg /\ Len(seg.crops) >= 2
    /\ DOMAIN seg \cap TemporaryFields = {}

\* C26: for every number of segments, none included, and every batch count
\* of 1 or more, _add_x_y_coords_to_each_segment returns every input segment
\* once and in the input order, each with crop_type 'single' (with x and y)
\* or 'split' (with a crops list of two or more entries) and without
\* found_face, first_face_sec and num_samples.
C26_Step ==
    (resize_pc = "roi" /\ resize_pc' = "coalesce") =>
        /\ Len(segments') = Len(segments)
        /\ \A i \in 1..Len(segments) :
             /\ segments'[i].speakers = segments[i].speakers
             /\ segments'[i].start_time = segments[i].start_time
             /\ segments'[i].end_time = segments[i].end_time
             /\ HasCrop(segments'[i])

C26_NothingLost == [][C26_Step]_vars

\* the ROI stage has returned three segments: one without a face, one with
\* three ROIs and one with a single ROI
C26_Witness ==
    /\ resize_pc = "coalesce" /\ coalesce_pc = "loop" /\ idx = 0
    /\ Len(segments) = 3
    /\ scanned_found_face = <<FALSE, TRUE, TRUE>>
    /\ roi_face_detections = << <<>>, <<Face1, Face2, Face3>>, <<Face1>> >>
    /\ segments[1].crop_type = "single"
    /\ segments[2].crop_type = "split" /\ Len(segments[2].crops) = 3
    /\ segments[3].crop_type = "single"

-----------------------------------------------------------------------------
(* Claims about the truth value of a Segment *)

\* the Segment has speakers and none of start_time, end_time, x and y is zero
SpeakersAndNoZero(h, s) ==
    /\ Len(h[s._speakers]) > 0
    /\ \A f \in {"_start_time", "_end_time", "_x", "_y"} : s[f] # 0

=============================================================================
